---- MODULE Spec2Model ----
(***************************************************************************)
(* The peer sync server of async_fuse/src/memfs/dist/server.rs: the        *)
(* acceptor thread, the owner's drop, the per-connection dispatch tasks,   *)
(* the two metadata reader/writer locks and the two metadata maps; and the *)
(* kernel request decoder of fuse_ll/src/fuse/ll_request.rs.               *)
(***************************************************************************)
EXTENDS Integers, Sequences, FiniteSets, TLC

\* Bounds of the model.
MaxConns == 2      \* connections peers open during one run
MaxIno == 2        \* inode numbers a peer may put in an attribute payload

Names == {"a", "b"}
Kinds == {"dir", "file"}
Inos == 1 .. MaxIno
Root == <<>>
\* Paths a peer names in a request: the root and one child of it.
ArgPaths == {Root, <<"a">>}

VARIABLES
    acceptor,   \* the acceptor thread: [pc, cur, req]
    drop,       \* the owner's position in Drop::drop
    backlog,    \* connections established and not yet accepted, in order
    conns,      \* every connection opened so far: [src, sent, reads, replies]
    task,       \* the dispatch task of each accepted remote connection
    path2inum,  \* meta.path2inum, path -> inode number
    cache,      \* meta.cache, inode number -> node
    calls,      \* calls made to the content cache and the metadata store
    cur_inum,   \* the metadata store's inode counter
    kbuf,       \* the byte buffer the kernel driver handed to Request::try_from
    kres        \* what Request::try_from returned for it

server == <<acceptor, drop, backlog, conns, task, path2inum, cache, calls, cur_inum>>
kernel == <<kbuf, kres>>
vars == <<server, kernel>>

----------------------------------------------------------------------------
\* Requests (DistRequest) and replies.

Req(op, path, name, ino, kind) ==
    [op |-> op, path |-> path, name |-> name, ino |-> ino, kind |-> kind]

NoReq == Req("none", Root, "", 0, "")
TurnOff == Req("TurnOff", Root, "", 0, "")

\* Handlers that only call a collaborator and reply.
OpaqueOps == {"Invalidate", "CheckAvailable", "Read", "Rename", "Remove", "GetInodeNum"}
MetaOps == {"LoadDir", "UpdateDir", "RemoveDirEntry", "GetFileAttr", "PushFileAttr"}

\* The attribute payloads and the (parent_path, child_name) pairs peers send.
PeerAttrs ==
    {[ino |-> i, kind |-> "dir"] : i \in Inos} \cup {[ino |-> MaxIno, kind |-> "file"]}
PeerEntries == {<<Root, "a">>, <<Root, "b">>, <<(<<"a">>), "a">>}

Requests ==
    {TurnOff}
    \cup {Req(o, Root, "", 0, "") : o \in OpaqueOps}
    \cup {Req(o, p, "", 0, "") : o \in {"LoadDir", "GetFileAttr"}, p \in ArgPaths}
    \cup {Req("RemoveDirEntry", e[1], e[2], 0, "") : e \in PeerEntries}
    \cup {Req("PushFileAttr", p, "", a.ino, a.kind) : p \in ArgPaths, a \in PeerAttrs}
    \cup {Req("UpdateDir", e[1], e[2], a.ino, a.kind) : e \in PeerEntries, a \in PeerAttrs}

\* What a peer on the bind address sends: one request of every variant.
LocalRequests ==
    {TurnOff}
    \cup {Req(o, Root, "", 0, "") : o \in OpaqueOps}
    \cup {Req(o, Root, "", 0, "") : o \in {"LoadDir", "GetFileAttr"}}
    \cup {Req("RemoveDirEntry", Root, "a", 0, ""),
          Req("PushFileAttr", Root, "", 2, "file"),
          Req("UpdateDir", Root, "a", 2, "dir")}

Reply(tag, val) == [tag |-> tag, val |-> val]
NoReply == Reply("none", <<>>)

----------------------------------------------------------------------------
\* The metadata graph.

Attr(ino, kind) == [ino |-> ino, kind |-> kind]
DirEntry(ino, name, kind) == [ino |-> ino, name |-> name, kind |-> kind]
Node(path, attr, dir) == [path |-> path, attr |-> attr, dir |-> dir]
EmptyDir == [n \in {} |-> DirEntry(0, "", "")]
NoNode == Node(Root, Attr(0, ""), EmptyDir)
RootNode == Node(Root, Attr(1, "dir"), EmptyDir)

\* types::serial_to_file_attr: the attribute record of a peer payload.
serial_to_file_attr(req) == Attr(req.ino, req.kind)

\* S3Node::new_child_node_of_parent: the child of parent under child_name,
\* not yet inserted anywhere; its inode number is the payload's.
new_child_node_of_parent(parent, child_name, child_attr) ==
    Node(Append(parent.path, child_name), child_attr, EmptyDir)

\* The metadata the server starts with: the root alone, or the root and a
\* path whose inode has no node (the case lines 248 and 320 handle).
InitMeta ==
    { [p2i |-> (Root :> 1), nodes |-> (1 :> RootNode)],
      [p2i |-> (Root :> 1) @@ (<<"a">> :> 2), nodes |-> (1 :> RootNode)] }

----------------------------------------------------------------------------
\* The kernel request decoder (fuse_ll/src/fuse/ll_request.rs).

\* mem::size_of::<fuse_in_header>().
HeaderSize == 40
\* Bytes a buffer carries after the fixed argument struct of its opcode.
MaxTail == 3

\* fuse_opcode: the opcodes whose parsers differ in shape, with the sizes of
\* their fixed argument structs and the fetches Operation::parse makes.
FUSE_LOOKUP == 1
FUSE_GETATTR == 3
FUSE_SYMLINK == 6
FUSE_MKNOD == 8
FUSE_RENAME == 12
FUSE_WRITE == 16
FUSE_SETXATTR == 21
FUSE_INIT == 26
KnownOpcodes ==
    {FUSE_LOOKUP, FUSE_GETATTR, FUSE_SYMLINK, FUSE_MKNOD, FUSE_RENAME,
     FUSE_WRITE, FUSE_SETXATTR, FUSE_INIT}
\* Values no fuse_opcode has; the last differs from FUSE_INIT in its top byte.
UnknownOpcodes == {0, 99, 16777242}

ArgSize(opcode) ==
    CASE opcode = FUSE_MKNOD -> 8
      [] opcode = FUSE_RENAME -> 8
      [] opcode = FUSE_WRITE -> 24
      [] opcode = FUSE_SETXATTR -> 8
      [] opcode = FUSE_INIT -> 16
      [] OTHER -> 0

\* The cursor calls of each arm of Operation::parse, in order.
Fetches(opcode) ==
    CASE opcode = FUSE_LOOKUP -> <<"fetch_str">>
      [] opcode = FUSE_GETATTR -> <<>>
      [] opcode = FUSE_SYMLINK -> <<"fetch_str", "fetch_str">>
      [] opcode = FUSE_MKNOD -> <<"fetch", "fetch_str">>
      [] opcode = FUSE_RENAME -> <<"fetch", "fetch_str", "fetch_str">>
      [] opcode = FUSE_WRITE -> <<"fetch", "fetch_all">>
      [] opcode = FUSE_SETXATTR -> <<"fetch", "fetch_str", "fetch_all">>
      [] opcode = FUSE_INIT -> <<"fetch">>

\* A u32 in host (little-endian) byte order.
Le32(x) == <<x % 256, (x \div 256) % 256, (x \div 65536) % 256, x \div 16777216>>
U32At(b, off) ==
    b[off + 1] + 256 * b[off + 2] + 65536 * b[off + 3] + 16777216 * b[off + 4]

Zeros(n) == [i \in 1 .. n |-> 0]
Tails == UNION {[1 .. n -> {0, 97}] : n \in 0 .. MaxTail}

\* A packet of the kernel: header, argument struct, names and data.
Packet(opcode, len, tail) ==
    Le32(len) \o Le32(opcode) \o Zeros(HeaderSize - 8) \o Zeros(ArgSize(opcode)) \o tail

\* The buffers handed to the decoder: every prefix, short of the header or
\* not, of packets whose length field is below, at or above their size.
KernelBuffers ==
    UNION { LET full == HeaderSize + ArgSize(o) + Len(t) IN
            UNION { { SubSeq(Packet(o, l, t), 1, n) :
                        n \in {0, 20, HeaderSize - 1} \cup (HeaderSize .. full) } :
                    l \in {0, HeaderSize - 1, HeaderSize, HeaderSize + ArgSize(o),
                           full - 1, full, full + 1} } :
            o \in KnownOpcodes \cup UnknownOpcodes, t \in Tails }

\* The two requests of the decoder's own tests, in little-endian byte order.
INIT_REQUEST ==
    << 56, 0, 0, 0, 26, 0, 0, 0,
       13, 240, 173, 186, 239, 190, 173, 222,
       136, 119, 102, 85, 68, 51, 34, 17,
       13, 208, 1, 192, 254, 202, 1, 192,
       94, 186, 222, 192, 0, 0, 0, 0,
       7, 0, 0, 0, 8, 0, 0, 0,
       0, 16, 0, 0, 0, 0, 0, 0 >>
MKNOD_REQUEST ==
    << 56, 0, 0, 0, 8, 0, 0, 0,
       13, 240, 173, 186, 239, 190, 173, 222,
       136, 119, 102, 85, 68, 51, 34, 17,
       13, 208, 1, 192, 254, 202, 1, 192,
       94, 186, 222, 192, 0, 0, 0, 0,
       164, 1, 0, 0, 0, 0, 0, 0,
       102, 111, 111, 46, 116, 120, 116, 0 >>

\* ArgumentIterator: the bytes not yet fetched; off is where they start in
\* the buffer the iterator was made of.
ArgumentIterator(b) == [data |-> b, off |-> 0]
IteratorLen(it) == Len(it.data)
Advance(it, n) ==
    [data |-> SubSeq(it.data, n + 1, Len(it.data)), off |-> it.off + n]
NoneFetched(it) == [ok |-> FALSE, lo |-> 0, hi |-> 0, it |-> it]
Fetched(it, n, skip) ==
    [ok |-> TRUE, lo |-> it.off, hi |-> it.off + n, it |-> Advance(it, n + skip)]

\* fetch::<T>(): the next size bytes, None without advancing when too few.
fetch(it, size) ==
    IF size <= Len(it.data) THEN Fetched(it, size, 0) ELSE NoneFetched(it)

\* Mutant of fetch_str: without a NUL the rest of the bytes is the name.
fetch_str_lenient(it) ==
    LET nuls == {i \in 1 .. Len(it.data) : it.data[i] = 0} IN
    IF nuls = {} THEN Fetched(it, Len(it.data), 0)
    ELSE LET first == CHOOSE i \in nuls : \A j \in nuls : i <= j IN
         Fetched(it, first - 1, 1)

\* Mutant of fetch_str: the cursor is left at the NUL.
fetch_str_at_nul(it) ==
    LET nuls == {i \in 1 .. Len(it.data) : it.data[i] = 0} IN
    IF nuls = {} THEN NoneFetched(it)
    ELSE LET first == CHOOSE i \in nuls : \A j \in nuls : i <= j IN
         Fetched(it, first - 1, 0)

\* fetch_str(): the bytes before the next NUL, and the cursor past the NUL.
fetch_str(it) ==
    LET nuls == {i \in 1 .. Len(it.data) : it.data[i] = 0} IN
    IF nuls = {} THEN NoneFetched(it)
    ELSE LET first == CHOOSE i \in nuls : \A j \in nuls : i <= j IN
         Fetched(it, first - 1, 1)

\* fetch_all(): all that is left.
fetch_all(it) == Fetched(it, Len(it.data), 0)

\* Operation::parse: the arm's fetches one after the other, None at the
\* first that fails; fields are the byte ranges [lo, hi) the variant borrows.
RECURSIVE ParseFrom(_, _, _, _)
ParseFrom(opcode, it, k, fields) ==
    IF k > Len(Fetches(opcode))
    THEN [ok |-> TRUE, fields |-> fields, it |-> it]
    ELSE LET call == Fetches(opcode)[k]
             r == CASE call = "fetch" -> fetch(it, ArgSize(opcode))
                    [] call = "fetch_str" -> fetch_str(it)
                    [] call = "fetch_all" -> fetch_all(it) IN
         IF r.ok
         THEN ParseFrom(opcode, r.it, k + 1, Append(fields, <<r.lo, r.hi>>))
         ELSE [ok |-> FALSE, fields |-> <<>>, it |-> it]

parse(opcode, it) == ParseFrom(opcode, it, 1, <<>>)

\* A header field of size bytes at offset off of the buffer the Request
\* borrows, as the number it is in host byte order, written in base 256 with
\* the most significant digit first.
FieldAt(b, off, size) == [i \in 1 .. size |-> b[off + size + 1 - i]]

\* The accessors of Request: each returns a field of the borrowed header.
unique(b) == FieldAt(b, 8, 8)
nodeid(b) == FieldAt(b, 16, 8)
\* Mutant of uid: the group id's bytes.
uid_from_gid(b) == FieldAt(b, 28, 4)
uid(b) == FieldAt(b, 24, 4)
gid(b) == FieldAt(b, 28, 4)
pid(b) == FieldAt(b, 32, 4)

\* Results of Request::try_from.
NotDecoded == [tag |-> "none", a |-> 0, b |-> 0, fields |-> <<>>]
Err(tag, a, b) == [tag |-> tag, a |-> a, b |-> b, fields |-> <<>>]
Ok(len, opcode, fields) == [tag |-> "Ok", a |-> len, b |-> opcode, fields |-> fields]

\* Mutant of ShortReadHeader: the error carries the size that was needed.
ShortReadHeaderNeeded(it) == Err("ShortReadHeader", HeaderSize, 0)

\* RequestError::ShortReadHeader(data.len()) of the cursor after the fetch.
ShortReadHeader(it) == Err("ShortReadHeader", IteratorLen(it), 0)

\* Mutant of ShortRead: the two lengths change places.
ShortReadSwapped(data_len, len) == Err("ShortRead", len, data_len)

\* RequestError::ShortRead(data_len, header.len as usize).
ShortRead(data_len, len) == Err("ShortRead", data_len, len)

\* Mutant of try_from: the size check comes before the opcode check.
try_from_size_first(data) ==
    LET it == ArgumentIterator(data)
        h == fetch(it, HeaderSize) IN
    IF ~h.ok THEN ShortReadHeader(h.it)
    ELSE LET len == U32At(data, 0)
             opcode == U32At(data, 4) IN
         IF Len(data) < len THEN ShortRead(Len(data), len)
         ELSE IF opcode \notin KnownOpcodes THEN Err("UnknownOperation", opcode, 0)
         ELSE LET op == parse(opcode, h.it) IN
              IF op.ok THEN Ok(len, opcode, op.fields)
              ELSE Err("InsufficientData", 0, 0)

\* impl TryFrom<&[u8]> for Request.
try_from(data) ==
    LET it == ArgumentIterator(data)
        h == fetch(it, HeaderSize) IN
    IF ~h.ok THEN ShortReadHeader(h.it)
    ELSE LET len == U32At(data, 0)
             opcode == U32At(data, 4) IN
         IF opcode \notin KnownOpcodes THEN Err("UnknownOperation", opcode, 0)
         ELSE IF Len(data) < len THEN ShortRead(Len(data), len)
         ELSE LET op == parse(opcode, h.it) IN
              IF op.ok THEN Ok(len, opcode, op.fields)
              ELSE Err("InsufficientData", 0, 0)

----------------------------------------------------------------------------
\* Connections.

Conn(src) == [src |-> src, sent |-> FALSE, reads |-> 0, replies |-> <<>>]

\* Mutant of IsLoopback: the address comparison always succeeds.
IsLoopbackAny(c) == c \in DOMAIN conns

\* addr.ip() == ip_addr: the peer's address is the bind address.
IsLoopback(c) == conns[c].src \in {"local", "owner"}

ListenerBound == acceptor.pc \in {"accepting", "local_read", "local_reply"}
AcceptorEnded == acceptor.pc \in {"returned", "panicked"}

PeerConns == {c \in DOMAIN conns : conns[c].src # "owner"}

\* A task as smol::spawn creates it: it has read nothing and holds nothing.
TaskAt(pc) ==
    [pc |-> pc, req |-> NoReq, inum |-> 0, child |-> NoNode, reply |-> NoReply,
     p2i |-> "none", cch |-> "none", coh |-> FALSE, dcoh |-> FALSE]

Init ==
    /\ acceptor = [pc |-> "spawned", cur |-> 0, req |-> NoReq]
    /\ drop = "idle"
    /\ backlog = <<>>
    /\ conns = <<>>
    /\ task = [c \in {} |-> TaskAt("wait_req")]
    /\ \E m \in InitMeta : path2inum = m.p2i /\ cache = m.nodes
    /\ calls = {}
    /\ cur_inum = 1
    /\ kbuf = <<>>
    /\ kres = NotDecoded

----------------------------------------------------------------------------
\* The acceptor thread (CacheServer::new, lines 74-125).

AcceptorBind ==
    /\ acceptor.pc = "spawned"
    /\ acceptor' = [acceptor EXCEPT !.pc = "accepting"]
    /\ UNCHANGED <<drop, backlog, conns, task, path2inum, cache, calls, cur_inum, kernel>>

AcceptorBindFail ==
    /\ acceptor.pc = "spawned"
    /\ acceptor' = [acceptor EXCEPT !.pc = "panicked"]
    /\ UNCHANGED <<drop, backlog, conns, task, path2inum, cache, calls, cur_inum, kernel>>

\* A peer connects to the listener.
Connect(src) ==
    /\ ListenerBound
    /\ Cardinality(PeerConns) < MaxConns
    /\ conns' = Append(conns, Conn(src))
    /\ backlog' = Append(backlog, Len(conns) + 1)
    /\ UNCHANGED <<acceptor, drop, task, path2inum, cache, calls, cur_inum, kernel>>

\* listener.accept() returns the oldest connection: the loopback branch keeps
\* it on the acceptor thread, the other branch spawns a detached task.
Accept ==
    /\ acceptor.pc = "accepting"
    /\ backlog # <<>>
    /\ LET c == Head(backlog) IN
        /\ backlog' = Tail(backlog)
        /\ IF IsLoopback(c)
           THEN /\ acceptor' = [pc |-> "local_read", cur |-> c, req |-> NoReq]
                /\ task' = task
           ELSE /\ acceptor' = acceptor
                /\ task' = (c :> TaskAt("wait_req")) @@ task
    /\ UNCHANGED <<drop, conns, path2inum, cache, calls, cur_inum, kernel>>

AcceptFail ==
    /\ acceptor.pc = "accepting"
    /\ acceptor' = [acceptor EXCEPT !.pc = "panicked"]
    /\ UNCHANGED <<drop, backlog, conns, task, path2inum, cache, calls, cur_inum, kernel>>

\* Mutant of LocalRead: a request other than TurnOff is handed to a dispatch
\* task instead of stopping the acceptor.
LocalReadDispatches(r) ==
    /\ acceptor.pc = "local_read"
    /\ LET c == acceptor.cur IN
        /\ IF conns[c].src = "owner"
           THEN conns[c].sent /\ r = TurnOff
           ELSE r \in LocalRequests
        /\ conns' = [conns EXCEPT ![c].reads = @ + 1]
        /\ IF r.op = "TurnOff"
           THEN /\ acceptor' = [acceptor EXCEPT !.pc = "local_reply", !.req = r]
                /\ task' = task
           ELSE /\ acceptor' = [acceptor EXCEPT !.pc = "accepting", !.req = r]
                /\ task' = (c :> [TaskAt("call") EXCEPT !.req = r]) @@ task
    /\ UNCHANGED <<drop, backlog, path2inum, cache, calls, cur_inum, kernel>>

\* tcp::read_message on the loopback connection, then the match on the
\* request: TurnOff goes on to the reply, anything else panics.
LocalRead(r) ==
    /\ acceptor.pc = "local_read"
    /\ LET c == acceptor.cur IN
        /\ IF conns[c].src = "owner"
           THEN conns[c].sent /\ r = TurnOff
           ELSE r \in LocalRequests
        /\ conns' = [conns EXCEPT ![c].reads = @ + 1]
        /\ acceptor' = [acceptor EXCEPT
                            !.pc = IF r.op = "TurnOff" THEN "local_reply" ELSE "panicked",
                            !.req = r]
    /\ UNCHANGED <<drop, backlog, task, path2inum, cache, calls, cur_inum, kernel>>

\* The loopback peer closed its end before a whole frame arrived.
LocalReadFail ==
    /\ acceptor.pc = "local_read"
    /\ conns[acceptor.cur].src = "local"
    /\ acceptor' = [acceptor EXCEPT !.pc = "panicked"]
    /\ UNCHANGED <<drop, backlog, conns, task, path2inum, cache, calls, cur_inum, kernel>>

\* Mutant of LocalTurnoff: the acceptor returns without writing the ack.
LocalTurnoffNoReply ==
    /\ acceptor.pc = "local_reply"
    /\ acceptor' = [acceptor EXCEPT !.pc = "returned"]
    /\ UNCHANGED <<drop, backlog, conns, task, path2inum, cache, calls, cur_inum, kernel>>

\* Mutant of LocalTurnoff: the acceptor acks and goes back to accept.
LocalTurnoffKeepsAccepting ==
    /\ acceptor.pc = "local_reply"
    /\ conns' = [conns EXCEPT ![acceptor.cur].replies = Append(@, Reply("turnoff", <<>>))]
    /\ acceptor' = [acceptor EXCEPT !.pc = "accepting"]
    /\ UNCHANGED <<drop, backlog, task, path2inum, cache, calls, cur_inum, kernel>>

\* turnoff(&mut local_stream) and return true.
LocalTurnoff ==
    /\ acceptor.pc = "local_reply"
    /\ conns' = [conns EXCEPT ![acceptor.cur].replies = Append(@, Reply("turnoff", <<>>))]
    /\ acceptor' = [acceptor EXCEPT !.pc = "returned"]
    /\ UNCHANGED <<drop, backlog, task, path2inum, cache, calls, cur_inum, kernel>>

LocalTurnoffFail ==
    /\ acceptor.pc = "local_reply"
    /\ conns[acceptor.cur].src = "local"
    /\ acceptor' = [acceptor EXCEPT !.pc = "panicked"]
    /\ UNCHANGED <<drop, backlog, conns, task, path2inum, cache, calls, cur_inum, kernel>>

----------------------------------------------------------------------------
\* The owner drops the server (impl Drop, lines 36-59).

\* TcpStream::connect to ip:port: refused unless the listener is bound.
DropConnect ==
    /\ drop = "idle"
    /\ IF ListenerBound
       THEN /\ conns' = Append(conns, Conn("owner"))
            /\ backlog' = Append(backlog, Len(conns) + 1)
            /\ drop' = "send"
       ELSE /\ drop' = "panicked"
            /\ UNCHANGED <<conns, backlog>>
    /\ UNCHANGED <<acceptor, task, path2inum, cache, calls, cur_inum, kernel>>

OwnerConn == CHOOSE c \in DOMAIN conns : conns[c].src = "owner"

\* tcp::write_message(&mut connect, request::turnoff()).
DropSend ==
    /\ drop = "send"
    /\ conns' = [conns EXCEPT ![OwnerConn].sent = TRUE]
    /\ drop' = "join"
    /\ UNCHANGED <<acceptor, backlog, task, path2inum, cache, calls, cur_inum, kernel>>

\* The write fails: the listener went away with the connection unaccepted.
DropSendFail ==
    /\ drop = "send"
    /\ AcceptorEnded
    /\ drop' = "panicked"
    /\ UNCHANGED <<acceptor, backlog, conns, task, path2inum, cache, calls, cur_inum, kernel>>

\* th.join(): returns once the acceptor thread has ended, Err if it panicked.
DropJoin ==
    /\ drop = "join"
    /\ AcceptorEnded
    /\ drop' = IF acceptor.pc = "returned" THEN "done" ELSE "panicked"
    /\ UNCHANGED <<acceptor, backlog, conns, task, path2inum, cache, calls, cur_inum, kernel>>

----------------------------------------------------------------------------
\* The metadata locks (async reader/writer locks of the metadata store).

PathsFree(c, mode) ==
    \A d \in DOMAIN task \ {c} :
        IF mode = "read" THEN task[d].p2i # "write" ELSE task[d].p2i = "none"

InodesFree(c, mode) ==
    \A d \in DOMAIN task \ {c} :
        IF mode = "read" THEN task[d].cch # "write" ELSE task[d].cch = "none"

\* Invariant (1) of the metadata graph, and no inode under two paths.
Coherent ==
    /\ \A p \in DOMAIN path2inum :
        /\ path2inum[p] \in DOMAIN cache
        /\ cache[path2inum[p]].path = p
    /\ \A p, q \in DOMAIN path2inum : path2inum[p] = path2inum[q] => p = q

\* Invariant (2) of the metadata graph: every entry of every directory map
\* names an inode that has a node, whose full path is the parent's + the name.
DirCoherent ==
    \A i \in DOMAIN cache : \A n \in DOMAIN cache[i].dir :
        /\ cache[i].dir[n].ino \in DOMAIN cache
        /\ cache[cache[i].dir[n].ino].path = Append(cache[i].path, n)

----------------------------------------------------------------------------
\* dispatch (lines 135-202) and the handlers.

Running(c, pc, ops) ==
    /\ c \in DOMAIN task
    /\ task[c].pc = pc
    /\ task[c].req.op \in ops

\* The handler dispatch's match selects.
Entry(op) ==
    IF op = "TurnOff" THEN "reply"
    ELSE IF op \in OpaqueOps THEN "call" ELSE "paths"

\* tcp::read_message, deserialize_cache and the match on the request.
TaskRead(c, r) ==
    /\ c \in DOMAIN task
    /\ task[c].pc = "wait_req"
    /\ conns' = [conns EXCEPT ![c].reads = @ + 1]
    /\ task' = [task EXCEPT ![c].pc = Entry(r.op),
                            ![c].req = r,
                            ![c].reply = IF r.op = "TurnOff"
                                         THEN Reply("turnoff", <<>>) ELSE NoReply]
    /\ UNCHANGED <<acceptor, drop, backlog, path2inum, cache, calls, cur_inum, kernel>>

\* A task that ended by a panic: unwinding dropped its guards and its stream.
TaskReadFail(c) ==
    /\ c \in DOMAIN task
    /\ task[c].pc = "wait_req"
    /\ task' = [task EXCEPT ![c] = TaskAt("panicked")]
    /\ UNCHANGED <<acceptor, drop, backlog, conns, path2inum, cache, calls, cur_inum, kernel>>

\* The collaborator each lock-free handler calls before it replies.
CollabFn(op) ==
    CASE op = "Invalidate" -> "cache.invalidate"
      [] op = "CheckAvailable" -> "cache.check_available"
      [] op = "Read" -> "cache.read"
      [] op = "Rename" -> "meta.rename_local"
      [] op = "Remove" -> "meta.remove_node_local"
      [] op = "GetInodeNum" -> "meta.cur_inum"

\* The reply of a lock-free handler; avail is check_available's second field.
CollabReply(op, avail) ==
    CASE op = "Invalidate" -> Reply("invalidate", <<>>)
      [] op = "CheckAvailable" -> Reply("check_available", <<avail>>)
      [] op = "Read" -> Reply("read", <<>>)
      [] op = "Rename" -> Reply("rename", <<>>)
      [] op = "Remove" -> Reply("remove", <<>>)
      [] op = "GetInodeNum" -> Reply("u32", <<cur_inum>>)

\* Mutant of TaskCall: the reply is prepared without the collaborator having
\* been called.
TaskCallSkipped(c) ==
    /\ Running(c, "call", OpaqueOps)
    /\ \E avail \in BOOLEAN :
        /\ task[c].req.op # "CheckAvailable" => avail
        /\ task' = [task EXCEPT ![c].pc = "reply",
                                ![c].reply = CollabReply(task[c].req.op, avail)]
    /\ UNCHANGED <<acceptor, drop, backlog, conns, path2inum, cache, calls, cur_inum, kernel>>

\* Mutant of TaskCall: get_inode_num hands out the counter and advances it.
TaskCallAllocating(c) ==
    /\ Running(c, "call", OpaqueOps)
    /\ \E avail \in BOOLEAN :
        /\ task[c].req.op # "CheckAvailable" => avail
        /\ task' = [task EXCEPT ![c].pc = "reply",
                                ![c].reply = CollabReply(task[c].req.op, avail)]
    /\ calls' = calls \cup {<<c, CollabFn(task[c].req.op)>>}
    /\ cur_inum' = IF task[c].req.op = "GetInodeNum" THEN cur_inum + 1 ELSE cur_inum
    /\ UNCHANGED <<acceptor, drop, backlog, conns, path2inum, cache, kernel>>

\* invalidate, check_available, read, rename, remove, get_inode_num up to
\* their write.
TaskCall(c) ==
    /\ Running(c, "call", OpaqueOps)
    /\ \E avail \in BOOLEAN :
        /\ task[c].req.op # "CheckAvailable" => avail
        /\ task' = [task EXCEPT ![c].pc = "reply",
                                ![c].reply = CollabReply(task[c].req.op, avail)]
    /\ calls' = calls \cup {<<c, CollabFn(task[c].req.op)>>}
    /\ UNCHANGED <<acceptor, drop, backlog, conns, path2inum, cache, cur_inum, kernel>>

\* meta.path2inum.read()/write().await and path2inum.get(path): the guard is
\* a let binding of the handler, alive to its end. coh and dcoh record, for
\* the writer, whether the maps were coherent when it got the lock.
LockPaths(c, op, mode, miss) ==
    /\ Running(c, "paths", {op})
    /\ PathsFree(c, mode)
    /\ LET t == task[c]
           coh == mode = "write" /\ Coherent
           dcoh == mode = "write" /\ DirCoherent IN
        task' = [task EXCEPT ![c] =
                    IF t.req.path \in DOMAIN path2inum
                    THEN [t EXCEPT !.pc = "inodes", !.p2i = mode, !.coh = coh,
                                   !.dcoh = dcoh, !.inum = path2inum[t.req.path]]
                    ELSE [t EXCEPT !.pc = "reply", !.p2i = mode, !.coh = coh,
                                   !.dcoh = dcoh, !.reply = miss]]
    /\ UNCHANGED <<acceptor, drop, backlog, conns, path2inum, cache, calls, cur_inum, kernel>>

LoadDirPaths(c) == LockPaths(c, "LoadDir", "read", Reply("load_dir_none", <<>>))

\* Mutant of UpdateDirPaths: the path map is locked shared.
UpdateDirPathsShared(c) ==
    LockPaths(c, "UpdateDir", "read", Reply("update_dir", <<>>))

UpdateDirPaths(c) == LockPaths(c, "UpdateDir", "write", Reply("update_dir", <<>>))

\* Mutant of RemoveDirEntryPaths: the path map is locked exclusively.
RemoveDirEntryPathsExclusive(c) ==
    LockPaths(c, "RemoveDirEntry", "write", Reply("update_dir", <<>>))

RemoveDirEntryPaths(c) == LockPaths(c, "RemoveDirEntry", "read", Reply("update_dir", <<>>))

GetAttrPaths(c) == LockPaths(c, "GetFileAttr", "read", Reply("get_attr_none", <<>>))

PushAttrPaths(c) == LockPaths(c, "PushFileAttr", "read", Reply("push_attr", <<>>))

\* Mutant of LoadDirInodes: the directory of the root is replied whatever
\* node the path resolved to.
LoadDirInodesOfRoot(c) ==
    /\ Running(c, "inodes", {"LoadDir"})
    /\ InodesFree(c, "read")
    /\ LET t == task[c] IN
        task' = [task EXCEPT ![c] =
                    [t EXCEPT !.pc = "reply", !.cch = "read",
                              !.reply = IF t.inum \in DOMAIN cache
                                        THEN Reply("load_dir", cache[path2inum[Root]].dir)
                                        ELSE Reply("load_dir_none", <<>>)]]
    /\ UNCHANGED <<acceptor, drop, backlog, conns, path2inum, cache, calls, cur_inum, kernel>>

\* load_dir: meta.cache.read() is a temporary of the match scrutinee, alive
\* through both arms and so through the write.
LoadDirInodes(c) ==
    /\ Running(c, "inodes", {"LoadDir"})
    /\ InodesFree(c, "read")
    /\ LET t == task[c] IN
        task' = [task EXCEPT ![c] =
                    [t EXCEPT !.pc = "reply", !.cch = "read",
                              !.reply = IF t.inum \in DOMAIN cache
                                        THEN Reply("load_dir", cache[t.inum].dir)
                                        ELSE Reply("load_dir_none", <<>>)]]
    /\ UNCHANGED <<acceptor, drop, backlog, conns, path2inum, cache, calls, cur_inum, kernel>>

\* Mutant of GetAttrInodes: the return after the write of the attributes is
\* missing, so the handler goes on to the write of none.
GetAttrInodesNoReturn(c) ==
    /\ Running(c, "inodes", {"GetFileAttr"})
    /\ InodesFree(c, "read")
    /\ LET t == task[c] IN
        /\ conns' = IF t.inum \in DOMAIN cache
                    THEN [conns EXCEPT ![c].replies =
                                Append(@, Reply("get_attr", cache[t.inum].attr))]
                    ELSE conns
        /\ task' = [task EXCEPT ![c].pc = "reply", ![c].cch = "none",
                                ![c].reply = Reply("get_attr_none", <<>>)]
    /\ UNCHANGED <<acceptor, drop, backlog, path2inum, cache, calls, cur_inum, kernel>>

\* Mutant of GetAttrInodes: an inode without a node is answered with default
\* attributes instead of none.
GetAttrInodesDefault(c) ==
    /\ Running(c, "inodes", {"GetFileAttr"})
    /\ InodesFree(c, "read")
    /\ LET t == task[c] IN
        task' = [task EXCEPT ![c] =
                    [t EXCEPT !.pc = "reply", !.cch = "read",
                              !.reply = IF t.inum \in DOMAIN cache
                                        THEN Reply("get_attr", cache[t.inum].attr)
                                        ELSE Reply("get_attr", NoNode.attr)]]
    /\ UNCHANGED <<acceptor, drop, backlog, conns, path2inum, cache, calls, cur_inum, kernel>>

\* get_attr: the cache guard is a let binding of the if block, alive at the
\* write of the attributes and dropped before the write of none.
GetAttrInodes(c) ==
    /\ Running(c, "inodes", {"GetFileAttr"})
    /\ InodesFree(c, "read")
    /\ LET t == task[c] IN
        task' = [task EXCEPT ![c] =
                    IF t.inum \in DOMAIN cache
                    THEN [t EXCEPT !.pc = "reply", !.cch = "read",
                                   !.reply = Reply("get_attr", cache[t.inum].attr)]
                    ELSE [t EXCEPT !.pc = "reply", !.cch = "none",
                                   !.reply = Reply("get_attr_none", <<>>)]]
    /\ UNCHANGED <<acceptor, drop, backlog, conns, path2inum, cache, calls, cur_inum, kernel>>

\* The directory map without name.
DirRemove(dir, name) == [n \in DOMAIN dir \ {name} |-> dir[n]]

\* Waiting for meta.cache.write() in the scrutinee of an if let.
LockInodesWrite(c, op) ==
    /\ Running(c, "inodes", {op})
    /\ InodesFree(c, "write")
    /\ task' = [task EXCEPT ![c].pc = "apply", ![c].cch = "write"]
    /\ UNCHANGED <<acceptor, drop, backlog, conns, path2inum, cache, calls, cur_inum, kernel>>

RemoveDirEntryInodes(c) == LockInodesWrite(c, "RemoveDirEntry")

\* Mutant of RemoveDirEntryApply: the child's path is unlinked from the path
\* map as well.
RemoveDirEntryApplyUnlinking(c) ==
    /\ Running(c, "apply", {"RemoveDirEntry"})
    /\ LET t == task[c]
           child_path == Append(t.req.path, t.req.name) IN
        /\ cache' = IF t.inum \in DOMAIN cache
                    THEN [cache EXCEPT ![t.inum].dir = DirRemove(@, t.req.name)]
                    ELSE cache
        /\ path2inum' = [q \in DOMAIN path2inum \ {child_path} |-> path2inum[q]]
        /\ task' = [task EXCEPT ![c].pc = "reply", ![c].cch = "none",
                                ![c].reply = Reply("update_dir", <<>>)]
    /\ UNCHANGED <<acceptor, drop, backlog, conns, calls, cur_inum, kernel>>

\* remove_dir_entry: get_mut(parent_inum) and the removal; the cache guard is
\* a temporary of the if let, dropped at its end.
RemoveDirEntryApply(c) ==
    /\ Running(c, "apply", {"RemoveDirEntry"})
    /\ LET t == task[c] IN
        /\ cache' = IF t.inum \in DOMAIN cache
                    THEN [cache EXCEPT ![t.inum].dir = DirRemove(@, t.req.name)]
                    ELSE cache
        /\ task' = [task EXCEPT ![c].pc = "reply", ![c].cch = "none",
                                ![c].reply = Reply("update_dir", <<>>)]
    /\ UNCHANGED <<acceptor, drop, backlog, conns, path2inum, calls, cur_inum, kernel>>

\* Mutant of PushedAttr: the payload's attributes, its inode number included.
PushedAttrWhole(old_attr, req) == serial_to_file_attr(req)

\* The attributes push_attr stores: the payload's, with the node's own ino.
PushedAttr(old_attr, req) == [serial_to_file_attr(req) EXCEPT !.ino = old_attr.ino]

PushAttrInodes(c) == LockInodesWrite(c, "PushFileAttr")

\* push_attr: get_mut(inum) and node._set_attr(new_attr, false); the cache
\* guard is a temporary of the if let, dropped at its end.
PushAttrApply(c) ==
    /\ Running(c, "apply", {"PushFileAttr"})
    /\ LET t == task[c] IN
        /\ cache' = IF t.inum \in DOMAIN cache
                    THEN [cache EXCEPT ![t.inum].attr = PushedAttr(@, t.req)]
                    ELSE cache
        /\ task' = [task EXCEPT ![c].pc = "reply", ![c].cch = "none",
                                ![c].reply = Reply("push_attr", <<>>)]
    /\ UNCHANGED <<acceptor, drop, backlog, conns, path2inum, calls, cur_inum, kernel>>

\* Mutant of UpdateDirInodes: the child is built and inserted although the
\* parent inode has no node (its path then derives from the request's).
UpdateDirInodesUnchecked(c) ==
    /\ Running(c, "inodes", {"UpdateDir"})
    /\ InodesFree(c, "write")
    /\ LET t == task[c]
           parent == IF t.inum \in DOMAIN cache THEN cache[t.inum]
                     ELSE Node(t.req.path, Attr(t.inum, "dir"), EmptyDir) IN
        task' = [task EXCEPT ![c] =
                    [t EXCEPT !.pc = IF t.inum \in DOMAIN cache
                                     THEN "ins_entry" ELSE "ins_path",
                              !.cch = "write",
                              !.child = new_child_node_of_parent(
                                    parent, t.req.name, serial_to_file_attr(t.req))]]
    /\ UNCHANGED <<acceptor, drop, backlog, conns, path2inum, cache, calls, cur_inum, kernel>>

\* update_dir: meta.cache.write(), cache.get_mut(parent_inum) and the
\* construction of the child; without a parent node the block is left.
UpdateDirInodes(c) ==
    /\ Running(c, "inodes", {"UpdateDir"})
    /\ InodesFree(c, "write")
    /\ LET t == task[c] IN
        task' = [task EXCEPT ![c] =
                    IF t.inum \in DOMAIN cache
                    THEN [t EXCEPT !.pc = "ins_entry", !.cch = "write",
                                   !.child = new_child_node_of_parent(
                                        cache[t.inum], t.req.name, serial_to_file_attr(t.req))]
                    ELSE [t EXCEPT !.pc = "reply", !.cch = "none",
                                   !.reply = Reply("update_dir", <<>>)]]
    /\ UNCHANGED <<acceptor, drop, backlog, conns, path2inum, cache, calls, cur_inum, kernel>>

\* parent_node.get_dir_data_mut().insert(child_name, entry).
UpdateDirInsertEntry(c) ==
    /\ Running(c, "ins_entry", {"UpdateDir"})
    /\ LET t == task[c]
           entry == DirEntry(t.child.attr.ino, t.req.name, t.child.attr.kind) IN
        cache' = [cache EXCEPT ![t.inum].dir = (t.req.name :> entry) @@ @]
    /\ task' = [task EXCEPT ![c].pc = "ins_path"]
    /\ UNCHANGED <<acceptor, drop, backlog, conns, path2inum, calls, cur_inum, kernel>>

\* path2inum.insert(child_node.full_path(), child_ino).
UpdateDirInsertPath(c) ==
    /\ Running(c, "ins_path", {"UpdateDir"})
    /\ path2inum' = (task[c].child.path :> task[c].child.attr.ino) @@ path2inum
    /\ task' = [task EXCEPT ![c].pc = "ins_node"]
    /\ UNCHANGED <<acceptor, drop, backlog, conns, cache, calls, cur_inum, kernel>>

\* cache.insert(child_ino, child_node), then the cache guard's block ends.
UpdateDirInsertNode(c) ==
    /\ Running(c, "ins_node", {"UpdateDir"})
    /\ cache' = (task[c].child.attr.ino :> task[c].child) @@ cache
    /\ task' = [task EXCEPT ![c].pc = "reply", ![c].cch = "none",
                            ![c].reply = Reply("update_dir", <<>>)]
    /\ UNCHANGED <<acceptor, drop, backlog, conns, path2inum, calls, cur_inum, kernel>>

\* Mutant of WriteReply: the task returns with its guards still held.
WriteReplyKeepsGuards(c) ==
    /\ c \in DOMAIN task
    /\ task[c].pc = "reply"
    /\ conns' = [conns EXCEPT ![c].replies = Append(@, task[c].reply)]
    /\ task' = [task EXCEPT ![c] = [TaskAt("done") EXCEPT !.p2i = task[c].p2i,
                                                          !.cch = task[c].cch]]
    /\ UNCHANGED <<acceptor, drop, backlog, path2inum, cache, calls, cur_inum, kernel>>

\* tcp::write_message of the handler's reply, then the handler and dispatch
\* return: every guard and the stream are dropped.
WriteReply(c) ==
    /\ c \in DOMAIN task
    /\ task[c].pc = "reply"
    /\ conns' = [conns EXCEPT ![c].replies = Append(@, task[c].reply)]
    /\ task' = [task EXCEPT ![c] = TaskAt("done")]
    /\ UNCHANGED <<acceptor, drop, backlog, path2inum, cache, calls, cur_inum, kernel>>

\* Mutant of TaskWriteFail: the panicking task keeps what it held.
TaskWriteFailHolding(c) ==
    /\ c \in DOMAIN task
    /\ task[c].pc = "reply"
    /\ task' = [task EXCEPT ![c].pc = "panicked"]
    /\ UNCHANGED <<acceptor, drop, backlog, conns, path2inum, cache, calls, cur_inum, kernel>>

\* The write fails: the handler returns Err and the task panics.
TaskWriteFail(c) ==
    /\ c \in DOMAIN task
    /\ task[c].pc = "reply"
    /\ task' = [task EXCEPT ![c] = TaskAt("panicked")]
    /\ UNCHANGED <<acceptor, drop, backlog, conns, path2inum, cache, calls, cur_inum, kernel>>

----------------------------------------------------------------------------
Next ==
    \/ AcceptorBind
    \/ AcceptorBindFail
    \/ \E src \in {"local", "remote"} : Connect(src)
    \/ Accept
    \/ AcceptFail
    \/ \E r \in LocalRequests : LocalRead(r)
    \/ LocalReadFail
    \/ LocalTurnoff
    \/ LocalTurnoffFail
    \/ DropConnect
    \/ DropSend
    \/ DropSendFail
    \/ DropJoin
    \/ \E c \in DOMAIN conns, r \in Requests : TaskRead(c, r)
    \/ \E c \in DOMAIN conns : TaskReadFail(c)
    \/ \E c \in DOMAIN conns : TaskCall(c)
    \/ \E c \in DOMAIN conns : LoadDirPaths(c)
    \/ \E c \in DOMAIN conns : LoadDirInodes(c)
    \/ \E c \in DOMAIN conns : UpdateDirPaths(c)
    \/ \E c \in DOMAIN conns : UpdateDirInodes(c)
    \/ \E c \in DOMAIN conns : UpdateDirInsertEntry(c)
    \/ \E c \in DOMAIN conns : UpdateDirInsertPath(c)
    \/ \E c \in DOMAIN conns : UpdateDirInsertNode(c)
    \/ \E c \in DOMAIN conns : RemoveDirEntryPaths(c)
    \/ \E c \in DOMAIN conns : RemoveDirEntryInodes(c)
    \/ \E c \in DOMAIN conns : RemoveDirEntryApply(c)
    \/ \E c \in DOMAIN conns : GetAttrPaths(c)
    \/ \E c \in DOMAIN conns : GetAttrInodes(c)
    \/ \E c \in DOMAIN conns : PushAttrPaths(c)
    \/ \E c \in DOMAIN conns : PushAttrInodes(c)
    \/ \E c \in DOMAIN conns : PushAttrApply(c)
    \/ \E c \in DOMAIN conns : WriteReply(c)
    \/ \E c \in DOMAIN conns : TaskWriteFail(c)

Spec == Init /\ [][Next]_vars

\* What the threads and the executor do without waiting for anybody: the
\* acceptor thread runs, accept returns a queued connection, the owner's
\* TurnOff frame is read once sent, the drop goes on, and a task that has its
\* request runs to its end. When a peer connects, sends or closes is not fair.
Fairness ==
    /\ WF_vars(AcceptorBind \/ AcceptorBindFail)
    /\ WF_vars(Accept)
    /\ WF_vars(LocalRead(TurnOff) /\ conns[acceptor.cur].src = "owner")
    /\ WF_vars(LocalTurnoff \/ LocalTurnoffFail)
    /\ WF_vars(DropSend \/ DropSendFail)
    /\ WF_vars(DropJoin)
    /\ \A c \in 1 .. MaxConns + 1 :
        WF_vars(TaskCall(c) \/ LoadDirPaths(c) \/ LoadDirInodes(c)
                \/ UpdateDirPaths(c) \/ UpdateDirInodes(c) \/ UpdateDirInsertEntry(c)
                \/ UpdateDirInsertPath(c) \/ UpdateDirInsertNode(c)
                \/ RemoveDirEntryPaths(c) \/ RemoveDirEntryInodes(c)
                \/ RemoveDirEntryApply(c)
                \/ GetAttrPaths(c) \/ GetAttrInodes(c)
                \/ PushAttrPaths(c) \/ PushAttrInodes(c) \/ PushAttrApply(c)
                \/ WriteReply(c) \/ TaskWriteFail(c))

FairSpec == Spec /\ Fairness

----------------------------------------------------------------------------
\* The decoder alone: the kernel driver hands over one buffer and
\* Request::try_from is applied to it; no server is running.

DecodeInit ==
    /\ acceptor = [pc |-> "spawned", cur |-> 0, req |-> NoReq]
    /\ drop = "idle"
    /\ backlog = <<>>
    /\ conns = <<>>
    /\ task = [c \in {} |-> TaskAt("wait_req")]
    /\ path2inum = (Root :> 1)
    /\ cache = (1 :> RootNode)
    /\ calls = {}
    /\ cur_inum = 1
    /\ kbuf \in KernelBuffers \cup {INIT_REQUEST, MKNOD_REQUEST}
    /\ kres = NotDecoded

TryFrom ==
    /\ kres = NotDecoded
    /\ kres' = try_from(kbuf)
    /\ UNCHANGED <<kbuf, server>>

DecodeNext == TryFrom

DecodeSpec == DecodeInit /\ [][DecodeNext]_vars

----------------------------------------------------------------------------
\* C1: once the owner has started to drop the server, the drop completes: the
\* acceptor returns and the join succeeds; the drop never waits forever.
C1_DropTerminates == (drop # "idle") ~> (drop = "done")

\* The acknowledgement of TurnOff.
TurnOffAck == Reply("turnoff", <<>>)

\* C2: a connection from the bind address is read once, on the acceptor
\* thread, and never gets a dispatch task; when the request is TurnOff the
\* ack is not yet written while the acceptor is still about to reply, and it
\* is the one reply on that connection once the acceptor has returned.
C2_LoopbackTurnOff ==
    /\ \A c \in DOMAIN conns :
        conns[c].src # "remote" => (c \notin DOMAIN task /\ conns[c].reads <= 1)
    /\ acceptor.pc = "local_reply" =>
        ( /\ acceptor.req = TurnOff
          /\ conns[acceptor.cur].reads = 1
          /\ conns[acceptor.cur].replies = <<>> )
    /\ acceptor.pc = "returned" =>
        ( /\ conns[acceptor.cur].src # "remote"
          /\ acceptor.req = TurnOff
          /\ conns[acceptor.cur].reads = 1
          /\ conns[acceptor.cur].replies = <<TurnOffAck>> )

C2_Witness ==
    /\ acceptor.pc = "returned"
    /\ conns[acceptor.cur].src = "local"
    /\ conns[acceptor.cur].replies = <<TurnOffAck>>

\* C3: a request other than TurnOff read on a connection from the bind
\* address makes the acceptor panic in that very step, which changes neither
\* metadata map, makes no collaborator call and spawns no task; the
\* connection never gets a task, a call or a reply afterwards.
C3_LoopbackOtherIsFatal ==
    /\ [](acceptor.req.op \notin {"none", "TurnOff"} =>
            ( /\ acceptor.pc = "panicked"
              /\ conns[acceptor.cur].replies = <<>>
              /\ acceptor.cur \notin DOMAIN task
              /\ \A x \in calls : x[1] # acceptor.cur ))
    /\ [][(acceptor.pc = "local_read" /\ acceptor'.req.op \notin {"none", "TurnOff"}) =>
            ( /\ acceptor'.pc = "panicked"
              /\ UNCHANGED <<path2inum, cache, calls, task, cur_inum>> )]_vars

C3_Witness ==
    /\ acceptor.pc = "panicked"
    /\ acceptor.req.op = "UpdateDir"
    /\ conns[acceptor.cur].reads = 1

\* C4: the acceptor leaves its accept loop only on a connection from the bind
\* address: accepting a connection from another address spawns its task and
\* leaves the acceptor accepting, and no step of a task (the dispatch of
\* TurnOff included) changes the acceptor.
C4_RemoteNeverStops ==
    /\ [](acceptor.pc \in {"local_read", "local_reply", "returned"} =>
            conns[acceptor.cur].src # "remote")
    /\ [][(/\ acceptor.pc = "accepting"
           /\ backlog # <<>>
           /\ backlog' = Tail(backlog)
           /\ conns[Head(backlog)].src = "remote") =>
            (acceptor' = acceptor /\ Head(backlog) \in DOMAIN task')]_vars
    /\ [][(\E c \in DOMAIN task : task'[c] # task[c]) => acceptor' = acceptor]_vars

C4_Witness ==
    /\ acceptor.pc = "accepting"
    /\ \E c, d \in DOMAIN task :
        /\ c < d
        /\ task[c].pc = "done"
        /\ conns[c].replies = <<TurnOffAck>>
        /\ task[d].pc = "wait_req"

\* C5: a task that is writing its reply holds no guard of either metadata
\* lock.
C5_NoGuardAcrossReply ==
    \A c \in DOMAIN task :
        task[c].pc = "reply" => (task[c].p2i = "none" /\ task[c].cch = "none")

\* C6: a task waiting for the path lock holds no lock; the inode lock is held
\* only under the path lock; only UpdateDir holds both exclusively.
C6_LockOrder ==
    \A c \in DOMAIN task :
        /\ task[c].pc = "paths" => (task[c].p2i = "none" /\ task[c].cch = "none")
        /\ task[c].cch # "none" => task[c].p2i # "none"
        /\ (task[c].p2i = "write" /\ task[c].cch = "write") => task[c].req.op = "UpdateDir"

C6_Witness ==
    \E c, d \in DOMAIN task :
        /\ task[c].p2i = "write" /\ task[c].cch = "write"
        /\ task[d].pc = "paths" /\ task[d].req.op = "RemoveDirEntry"

UpdateDirApplied(t) ==
    /\ t.req.name \in DOMAIN cache[t.inum].dir
    /\ cache[t.inum].dir[t.req.name]
            = DirEntry(t.child.attr.ino, t.req.name, t.child.attr.kind)
    /\ t.child.path \in DOMAIN path2inum
    /\ path2inum[t.child.path] = t.child.attr.ino
    /\ t.child.attr.ino \in DOMAIN cache
    /\ cache[t.child.attr.ino] = t.child

\* C8: when an UpdateDir whose parent_path resolved to a node has completed
\* and is about to ack, the parent's directory map holds the new entry,
\* path2inum holds the child's path and cache holds the child node.
C8_UpdateDirInserts ==
    \A c \in DOMAIN task :
        (Running(c, "reply", {"UpdateDir"}) /\ task[c].child # NoNode) =>
            (UpdateDirApplied(task[c]) /\ task[c].reply.tag = "update_dir")

\* C9: an UpdateDir whose parent_path is not in path2inum, or whose parent
\* inode is not in cache, goes straight to its ack and leaves both maps as
\* they are; writing the ack changes neither map.
C9_UpdateDirMissIsNoOp ==
    [][\A c \in DOMAIN task :
        (task[c].req.op = "UpdateDir" /\ task'[c] # task[c]) =>
            /\ (task[c].pc = "paths" /\ task[c].req.path \notin DOMAIN path2inum) =>
                    ( /\ UNCHANGED <<path2inum, cache>>
                      /\ task'[c].pc = "reply"
                      /\ task'[c].reply.tag = "update_dir" )
            /\ (task[c].pc = "inodes" /\ task[c].inum \notin DOMAIN cache) =>
                    ( /\ UNCHANGED <<path2inum, cache>>
                      /\ task'[c].pc = "reply"
                      /\ task'[c].reply.tag = "update_dir" )
            /\ (task[c].pc = "reply" /\ task'[c].pc = "done") =>
                    ( /\ UNCHANGED <<path2inum, cache>>
                      /\ conns'[c].replies = <<task[c].reply>> )]_vars

C9_Witness ==
    \E c \in DOMAIN task :
        /\ Running(c, "reply", {"UpdateDir"})
        /\ task[c].child = NoNode
        /\ task[c].inum # 0
        /\ task[c].inum \notin DOMAIN cache

\* C10: an UpdateDir that started from coherent maps leaves coherent maps
\* when it has completed.
C10_UpdateDirKeepsCoherence ==
    \A c \in DOMAIN task :
        (Running(c, "reply", {"UpdateDir"}) /\ task[c].coh) => Coherent

\* C11: directory-entry coherence is kept by the three mutations: an
\* UpdateDir that got the path lock with coherent maps (invariants (1) and
\* (2)) leaves every directory entry naming a node whose full path is the
\* parent's path + the entry's name, and the steps of RemoveDirEntry and
\* PushFileAttr that change a node keep directory-entry coherence.
C11_DirEntryCoherence ==
    /\ [](\A c \in DOMAIN task :
            (Running(c, "reply", {"UpdateDir"}) /\ task[c].coh /\ task[c].dcoh)
                => DirCoherent)
    /\ [][\A c \in DOMAIN task :
            (/\ Running(c, "apply", {"RemoveDirEntry", "PushFileAttr"})
             /\ task'[c] # task[c]
             /\ DirCoherent) => DirCoherent']_vars

\* The full path of the child a RemoveDirEntry task names, under the node its
\* parent_path resolved to.
RemovedChildPath(t) == Append(cache[t.inum].path, t.req.name)

\* C12: when a RemoveDirEntry has acted on a parent whose child of that name
\* an UpdateDir had built (the child's node is in cache), the parent's
\* directory map has no entry of that name and the child's full path is no
\* longer in path2inum, so a lookup of the child's path finds nothing.
C12_RemovedChildUnresolvable ==
    \A c \in DOMAIN task :
        ( /\ Running(c, "reply", {"RemoveDirEntry"})
          /\ task[c].inum \in DOMAIN cache
          /\ \E i \in DOMAIN cache : cache[i].path = RemovedChildPath(task[c]) ) =>
            ( /\ task[c].req.name \notin DOMAIN cache[task[c].inum].dir
              /\ RemovedChildPath(task[c]) \notin DOMAIN path2inum )

\* C13: the step of a PushFileAttr that finds its node replaces the node's
\* attributes by the payload's with the inode number the node had, under the
\* same key; no step of a PushFileAttr changes path2inum or the keys of
\* cache; when the path or the inode is missing nothing changes; the one
\* reply written is the ack.
C13_PushAttrKeepsIno ==
    [][\A c \in DOMAIN task :
        (task[c].req.op = "PushFileAttr" /\ task'[c] # task[c]) =>
            /\ path2inum' = path2inum
            /\ DOMAIN cache' = DOMAIN cache
            /\ (task[c].pc = "apply" /\ task[c].inum \in DOMAIN cache) =>
                    ( /\ cache' = [cache EXCEPT ![task[c].inum].attr =
                                        [ino |-> @.ino, kind |-> task[c].req.kind]]
                      /\ task'[c].reply.tag = "push_attr" )
            /\ (task[c].pc = "apply" /\ task[c].inum \notin DOMAIN cache) =>
                    (cache' = cache /\ task'[c].reply.tag = "push_attr")
            /\ (task[c].pc = "paths" /\ task[c].req.path \notin DOMAIN path2inum) =>
                    ( /\ task'[c].pc = "reply"
                      /\ task'[c].reply.tag = "push_attr" )
            /\ task[c].pc # "apply" => cache' = cache
            /\ (task[c].pc = "reply" /\ task'[c].pc = "done") =>
                    conns'[c].replies = <<Reply("push_attr", <<>>)>>]_vars

C13_Witness ==
    \E c \in DOMAIN task :
        /\ Running(c, "reply", {"PushFileAttr"})
        /\ task[c].inum = 1
        /\ task[c].req.ino = 2
        /\ task[c].req.kind = "file"
        /\ cache[1].attr = Attr(1, "file")

\* C14: the step in which the task of a remote connection fails changes that
\* task alone: the acceptor, the other tasks, the maps and the owner are as
\* before; a failed task holds neither metadata lock and its connection has
\* no reply; and every task that has its request goes on to its end whatever
\* the other tasks do.
C14_TaskFailureIsLocal ==
    /\ [](\A c \in DOMAIN task :
            task[c].pc = "panicked" =>
                ( /\ conns[c].src = "remote"
                  /\ task[c].p2i = "none" /\ task[c].cch = "none"
                  /\ conns[c].replies = <<>> ))
    /\ [][\A c \in DOMAIN task :
            (task[c].pc # "panicked" /\ task'[c].pc = "panicked") =>
                ( /\ UNCHANGED <<acceptor, drop, backlog, conns, path2inum, cache, calls>>
                  /\ \A d \in DOMAIN task \ {c} : task'[d] = task[d] )]_vars
    /\ \A c \in 1 .. MaxConns :
            (c \in DOMAIN task /\ task[c].pc \notin {"wait_req", "done", "panicked"})
                ~> (c \in DOMAIN task /\ task[c].pc \in {"done", "panicked"})

\* One task has failed holding the path lock's request in hand, the acceptor
\* still accepts and the task of another connection has completed after it.
C14_Witness ==
    /\ acceptor.pc = "accepting"
    /\ \E c, d \in DOMAIN task :
        /\ c # d
        /\ task[c].pc = "panicked" /\ conns[c].reads = 1
        /\ task[d].pc = "done" /\ conns[d].replies = <<Reply("update_dir", <<>>)>>

\* C15: whenever the owner holds the server, the listener has been bound:
\* CacheServer::new has not returned before the bind, and the bind never
\* fails once the owner has the server.
C15_ServerMeansListening ==
    /\ [](drop = "idle" => acceptor.pc # "spawned")
    /\ [][acceptor.pc = "spawned" => acceptor'.pc # "panicked"]_vars

----------------------------------------------------------------------------
\* The decoder's claims, about the buffer kbuf and what try_from returned.

Decoded == kres # NotDecoded
HasHeader == Len(kbuf) >= HeaderSize
HeaderLen == U32At(kbuf, 0)
HeaderOpcode == U32At(kbuf, 4)

\* The bytes after the header the variant parser has gone through, when it
\* succeeds on the buffer.
ParserConsumed ==
    parse(HeaderOpcode, Advance(ArgumentIterator(kbuf), HeaderSize)).it.off - HeaderSize

\* C16: decoding succeeds exactly when the buffer has a whole header, the
\* header's length is at most the buffer's, the opcode is known and the
\* variant parser succeeds having consumed at most header.len - 40 bytes.
C16_DecodeIff ==
    Decoded =>
        ( kres.tag = "Ok" <=>
            ( /\ HasHeader
              /\ HeaderLen <= Len(kbuf)
              /\ HeaderOpcode \in KnownOpcodes
              /\ parse(HeaderOpcode, Advance(ArgumentIterator(kbuf), HeaderSize)).ok
              /\ ParserConsumed <= HeaderLen - HeaderSize ) )

\* C17: on a successful decode every field the operation variant borrows
\* (argument struct, names, trailing data) ends at or before header.len.
C17_FieldsInsideHeaderLen ==
    kres.tag = "Ok" =>
        \A k \in DOMAIN kres.fields : kres.fields[k][2] <= kres.a

\* C18: a buffer shorter than the header is refused with ShortReadHeader
\* carrying the length of the whole buffer.
C18_ShortReadHeader ==
    (Decoded /\ ~HasHeader) => kres = Err("ShortReadHeader", Len(kbuf), 0)

C18_Witness ==
    /\ Len(kbuf) = 20
    /\ kbuf[5] = FUSE_INIT
    /\ kres = Err("ShortReadHeader", 20, 0)

\* C19: a buffer with a whole header and an opcode no fuse_opcode has is
\* refused with UnknownOperation carrying that opcode, also when the
\* header's length exceeds the buffer's.
C19_UnknownOperation ==
    (Decoded /\ HasHeader /\ HeaderOpcode \notin KnownOpcodes) =>
        kres = Err("UnknownOperation", HeaderOpcode, 0)

C19_Witness ==
    /\ HasHeader
    /\ HeaderLen > Len(kbuf)
    /\ kres = Err("UnknownOperation", 16777242, 0)

\* C20: a buffer with a whole header, a known opcode and a header length
\* above its own is refused with ShortRead(buffer length, header length),
\* and no field of a variant comes out.
C20_ShortRead ==
    (Decoded /\ HasHeader /\ HeaderOpcode \in KnownOpcodes /\ HeaderLen > Len(kbuf)) =>
        ( /\ kres.tag = "ShortRead"
          /\ kres.a = Len(kbuf)
          /\ kres.b = HeaderLen
          /\ kres.fields = <<>> )

C20_Witness ==
    /\ Len(kbuf) = 48
    /\ HeaderOpcode = FUSE_INIT
    /\ kres = Err("ShortRead", 48, 56)

\* The header, opcode and length checks of try_from pass on kbuf.
ChecksPass ==
    /\ HasHeader
    /\ HeaderOpcode \in KnownOpcodes
    /\ HeaderLen <= Len(kbuf)

\* The bytes after the header are fewer than the opcode's argument struct.
StructCutShort ==
    /\ \E k \in DOMAIN Fetches(HeaderOpcode) : Fetches(HeaderOpcode)[k] = "fetch"
    /\ Len(kbuf) - HeaderSize < ArgSize(HeaderOpcode)

\* The bytes after the argument struct hold fewer NULs than the opcode has
\* names.
NameUnterminated ==
    LET from == HeaderSize + ArgSize(HeaderOpcode)
        names == {k \in DOMAIN Fetches(HeaderOpcode) : Fetches(HeaderOpcode)[k] = "fetch_str"}
        nuls == {i \in from + 1 .. Len(kbuf) : kbuf[i] = 0} IN
    Cardinality(nuls) < Cardinality(names)

\* C21: when the header, opcode and length checks pass and the argument
\* struct is cut short or a name lacks its NUL, the result is
\* InsufficientData and carries no field of a variant.
C21_InsufficientData ==
    (Decoded /\ ChecksPass /\ (StructCutShort \/ NameUnterminated)) =>
        kres = Err("InsufficientData", 0, 0)

\* A MkNod whose struct is whole and whose one-byte name has no NUL.
C21_Witness ==
    /\ ChecksPass
    /\ HeaderOpcode = FUSE_MKNOD
    /\ Len(kbuf) = HeaderSize + ArgSize(FUSE_MKNOD) + 1
    /\ kbuf[Len(kbuf)] # 0
    /\ kres.tag = "InsufficientData"

\* The header values the two test requests carry, most significant byte
\* first: 0xdead_beef_baad_f00d, 0x1122_3344_5566_7788, 0xc001_d00d,
\* 0xc001_cafe and 0xc0de_ba5e.
TestHeaderDecoded ==
    /\ unique(kbuf) = <<222, 173, 190, 239, 186, 173, 240, 13>>
    /\ nodeid(kbuf) = <<17, 34, 51, 68, 85, 102, 119, 136>>
    /\ uid(kbuf) = <<192, 1, 208, 13>>
    /\ gid(kbuf) = <<192, 1, 202, 254>>
    /\ pid(kbuf) = <<192, 222, 186, 94>>

\* C22: on a successful decode the variant is that of the header's opcode
\* and its argument struct is the bytes right after the 40-byte header; the
\* two test requests decode to Init{7, 8, 4096} and MkNod{0o644, "foo.txt"}
\* and the accessors return the values their headers hold.
C22_HeaderAndVariant ==
    Decoded =>
        /\ kres.tag = "Ok" =>
            ( /\ kres.a = HeaderLen
              /\ kres.b = HeaderOpcode
              /\ Len(kres.fields) = Len(Fetches(HeaderOpcode))
              /\ (Fetches(HeaderOpcode) # <<>> /\ Fetches(HeaderOpcode)[1] = "fetch") =>
                    kres.fields[1] = <<HeaderSize, HeaderSize + ArgSize(HeaderOpcode)>> )
        /\ kbuf = INIT_REQUEST =>
            ( /\ kres.tag = "Ok" /\ kres.a = 56 /\ kres.b = FUSE_INIT
              /\ TestHeaderDecoded
              /\ U32At(kbuf, kres.fields[1][1]) = 7
              /\ U32At(kbuf, kres.fields[1][1] + 4) = 8
              /\ U32At(kbuf, kres.fields[1][1] + 8) = 4096 )
        /\ kbuf = MKNOD_REQUEST =>
            ( /\ kres.tag = "Ok" /\ kres.a = 56 /\ kres.b = FUSE_MKNOD
              /\ TestHeaderDecoded
              /\ U32At(kbuf, kres.fields[1][1]) = 420
              /\ SubSeq(kbuf, kres.fields[2][1] + 1, kres.fields[2][2])
                    = <<102, 111, 111, 46, 116, 120, 116>> )

C22_Witness ==
    /\ kbuf = MKNOD_REQUEST
    /\ kres.tag = "Ok"
    /\ kres.fields = << <<40, 48>>, <<48, 55>> >>

----------------------------------------------------------------------------
\* What a read-only handler must reply for path: found is the reply's tag
\* and part the field of the node it carries, none the reply of a miss.
Lookup(path, found, none, part) ==
    IF path \in DOMAIN path2inum /\ path2inum[path] \in DOMAIN cache
    THEN Reply(found, cache[path2inum[path]][part])
    ELSE Reply(none, <<>>)

\* C23: a LoadDir task about to reply holds none if its path or its inode is
\* missing and otherwise the directory map of the node its path resolves to
\* in that state; that reply is the one written; no step of the task changes
\* path2inum or cache.
C23_LoadDir ==
    /\ [](\A c \in DOMAIN task :
            Running(c, "reply", {"LoadDir"}) =>
                task[c].reply = Lookup(task[c].req.path, "load_dir", "load_dir_none", "dir"))
    /\ [][\A c \in DOMAIN task :
            (task[c].req.op = "LoadDir" /\ task'[c] # task[c]) =>
                /\ UNCHANGED <<path2inum, cache>>
                /\ task'[c].pc = "done" => conns'[c].replies = <<task[c].reply>>]_vars

\* LoadDir of a directory another connection's UpdateDir has filled.
C23_Witness ==
    \E c \in DOMAIN task :
        /\ Running(c, "reply", {"LoadDir"})
        /\ task[c].reply.tag = "load_dir"
        /\ DOMAIN task[c].reply.val = {"a"}
        /\ task[c].reply.val["a"] = DirEntry(2, "a", "file")
        /\ task[c].req.path = Root

\* C24: a GetFileAttr task about to reply holds none if its path or its
\* inode is missing and otherwise the attributes of the node its path
\* resolves to in that state; that reply is the one written; no step of the
\* task changes path2inum or cache.
C24_GetFileAttr ==
    /\ [](\A c \in DOMAIN task :
            Running(c, "reply", {"GetFileAttr"}) =>
                task[c].reply = Lookup(task[c].req.path, "get_attr", "get_attr_none", "attr"))
    /\ [][\A c \in DOMAIN task :
            (task[c].req.op = "GetFileAttr" /\ task'[c] # task[c]) =>
                /\ UNCHANGED <<path2inum, cache>>
                /\ task'[c].pc = "done" => conns'[c].replies = <<task[c].reply>>]_vars

\* GetFileAttr of a path whose inode has no node, answered none.
C24_Witness ==
    \E c \in DOMAIN task :
        /\ Running(c, "reply", {"GetFileAttr"})
        /\ task[c].req.path \in DOMAIN path2inum
        /\ path2inum[task[c].req.path] \notin DOMAIN cache
        /\ task[c].reply = Reply("get_attr_none", <<>>)

\* Another connection's PushFileAttr is running, has been acknowledged or
\* may have been what a failed task was doing.
OtherPusher(c) ==
    \E d \in DOMAIN task \ {c} :
        \/ task[d].req.op = "PushFileAttr"
        \/ task[d].pc = "panicked"
        \/ conns[d].replies = <<Reply("push_attr", <<>>)>>

\* The mutation the request of task c asks for is in the cache or the
\* metadata store.
EffectApplied(c) ==
    LET t == task[c] IN
    /\ t.req.op \in {"Invalidate", "Rename", "Remove"} =>
            <<c, CollabFn(t.req.op)>> \in calls
    /\ (t.req.op = "UpdateDir" /\ t.child # NoNode) =>
            ( /\ t.child.path \in DOMAIN path2inum
              /\ path2inum[t.child.path] = t.child.attr.ino
              /\ t.child.attr.ino \in DOMAIN cache
              /\ cache[t.child.attr.ino] = t.child )
    /\ (t.req.op = "RemoveDirEntry" /\ t.inum \in DOMAIN cache) =>
            t.req.name \notin DOMAIN cache[t.inum].dir
    /\ (t.req.op = "PushFileAttr" /\ t.inum \in DOMAIN cache /\ ~OtherPusher(c)) =>
            cache[t.inum].attr.kind = t.req.kind

\* C25: a task that is about to write the ack of a mutating request has
\* already applied the mutation, and a reply is only ever written by a task
\* that is about to write it: the ack never precedes the mutation.
C25_ActBeforeReply ==
    /\ [](\A c \in DOMAIN task : task[c].pc = "reply" => EffectApplied(c))
    /\ [][\A c \in DOMAIN task :
            conns'[c].replies # conns[c].replies =>
                ( /\ task[c].pc = "reply"
                  /\ EffectApplied(c)
                  /\ conns'[c].replies = <<task[c].reply>> )]_vars

\* One connection's UpdateDir has been acknowledged and a later connection's
\* GetFileAttr of the child's path finds the child's attributes.
C25_Witness ==
    \E c, d \in DOMAIN task :
        /\ c # d
        /\ task[c].pc = "done"
        /\ conns[c].replies = <<Reply("update_dir", <<>>)>>
        /\ Running(d, "reply", {"GetFileAttr"})
        /\ task[d].req.path = <<"a">>
        /\ task[d].reply = Reply("get_attr", Attr(2, "file"))

\* How each metadata handler asks for the two locks.
PathsMode(op) == IF op = "UpdateDir" THEN "write" ELSE "read"
InodesMode(op) == IF op \in {"LoadDir", "GetFileAttr"} THEN "read" ELSE "write"

\* Task c is past its read and has not ended; it waits for a lock another
\* task holds.
Unfinished(c) ==
    c \in DOMAIN task /\ task[c].pc \notin {"wait_req", "done", "panicked"}
Blocked(c) ==
    \/ task[c].pc = "paths" /\ ~PathsFree(c, PathsMode(task[c].req.op))
    \/ task[c].pc = "inodes" /\ ~InodesFree(c, InodesMode(task[c].req.op))

\* C26: the metadata handlers do not deadlock: whenever a task waits for a
\* lock, some unfinished task is not waiting; a task that has ended holds no
\* lock; and under fair scheduling every task with a metadata request ends.
C26_NoDeadlock ==
    /\ []((\E c \in DOMAIN task : Blocked(c)) =>
            (\E d \in DOMAIN task : Unfinished(d) /\ ~Blocked(d)))
    /\ [](\A c \in DOMAIN task :
            task[c].pc \in {"done", "panicked"} =>
                (task[c].p2i = "none" /\ task[c].cch = "none"))
    /\ \A c \in 1 .. MaxConns :
            (Unfinished(c) /\ task[c].req.op \in MetaOps)
                ~> (c \in DOMAIN task /\ task[c].pc \in {"done", "panicked"})

\* An UpdateDir holds the path lock exclusively while a LoadDir waits for it.
C26_Witness ==
    \E c, d \in DOMAIN task :
        /\ Blocked(c) /\ task[c].req.op = "LoadDir"
        /\ task[d].req.op = "UpdateDir" /\ task[d].pc = "ins_path"

\* C27: the acceptor waits for nothing but accept: a connection that has
\* been established is accepted in the end, unless the acceptor thread has
\* ended, whatever the peers of the other connections send or read.
C27_OnlyAcceptWaits ==
    (backlog # <<>>) ~> (backlog = <<>> \/ AcceptorEnded)

----------------------------------------------------------------------------
\* The three mutating handlers as functions of the two maps, m = [p2i, nodes]:
\* what one whole run of the handler for request r makes of m.

Maps == [p2i |-> path2inum, nodes |-> cache]

\* update_dir, lines 264-286.
update_dir(m, r) ==
    IF r.path \in DOMAIN m.p2i /\ m.p2i[r.path] \in DOMAIN m.nodes
    THEN LET parent_inum == m.p2i[r.path]
             child_node == new_child_node_of_parent(
                                m.nodes[parent_inum], r.name, serial_to_file_attr(r))
             child_ino == child_node.attr.ino
             entry == DirEntry(child_ino, r.name, child_node.attr.kind)
             with_entry == [m.nodes EXCEPT ![parent_inum].dir = (r.name :> entry) @@ @] IN
         [p2i |-> (child_node.path :> child_ino) @@ m.p2i,
          nodes |-> (child_ino :> child_node) @@ with_entry]
    ELSE m

\* remove_dir_entry, lines 297-302.
remove_dir_entry(m, r) ==
    IF r.path \in DOMAIN m.p2i /\ m.p2i[r.path] \in DOMAIN m.nodes
    THEN [m EXCEPT !.nodes[m.p2i[r.path]].dir = DirRemove(@, r.name)]
    ELSE m

\* push_attr, lines 345-355.
push_attr(m, r) ==
    IF r.path \in DOMAIN m.p2i /\ m.p2i[r.path] \in DOMAIN m.nodes
    THEN [m EXCEPT !.nodes[m.p2i[r.path]].attr = PushedAttr(@, r)]
    ELSE m

Handler(m, r) ==
    CASE r.op = "UpdateDir" -> update_dir(m, r)
      [] r.op = "RemoveDirEntry" -> remove_dir_entry(m, r)
      [] r.op = "PushFileAttr" -> push_attr(m, r)

\* No handler is part-way through a change of the maps.
Quiescent ==
    \A c \in DOMAIN task : task[c].p2i # "write" /\ task[c].cch # "write"

\* C28: from the maps of any reachable state in which no handler is part-way
\* through a change, running the same UpdateDir, RemoveDirEntry or
\* PushFileAttr twice leaves the maps that running it once leaves.
C28_Idempotent ==
    Quiescent =>
        \A r \in Requests :
            r.op \in {"UpdateDir", "RemoveDirEntry", "PushFileAttr"} =>
                Handler(Handler(Maps, r), r) = Handler(Maps, r)

\* An UpdateDir between its first insertion and its last: the parent's
\* directory map has the new entry, the path map or the inode map not yet.
MidUpdate(d) == Running(d, "ins_path", {"UpdateDir"}) \/ Running(d, "ins_node", {"UpdateDir"})

\* A LoadDir or GetFileAttr reads a map in this step: path2inum.get at
\* lines 245 and 313, cache.get at lines 247 and 315.
ReaderReads(c) ==
    /\ c \in DOMAIN task
    /\ task[c].req.op \in {"LoadDir", "GetFileAttr"}
    /\ task[c].pc \in {"paths", "inodes"}
    /\ task'[c].pc # task[c].pc

\* C29: while an UpdateDir is part-way through its insertions no other task
\* holds a guard of the path map, and no LoadDir or GetFileAttr reads
\* path2inum or cache in a step that starts or ends in such a state.
C29_UpdateDirAtomic ==
    /\ [](\A d \in DOMAIN task :
            MidUpdate(d) => \A c \in DOMAIN task \ {d} : task[c].p2i = "none")
    /\ [][\A c \in DOMAIN task :
            ReaderReads(c) =>
                \A d \in DOMAIN task \ {c} : ~MidUpdate(d) /\ ~MidUpdate(d)']_vars

\* An UpdateDir is part-way through while a LoadDir or GetFileAttr waits for
\* the path map.
C29_Witness ==
    \E d, c \in DOMAIN task :
        /\ MidUpdate(d)
        /\ Running(c, "paths", {"LoadDir", "GetFileAttr"})

\* Task c, serving a RemoveDirEntry, takes this step.
RemoveDirEntryStep(c) ==
    /\ c \in DOMAIN task
    /\ task[c].req.op = "RemoveDirEntry"
    /\ task'[c] # task[c]

\* The directory map the request is about, if the parent path resolves to a
\* node and that map has the name.
Detachable(r) ==
    /\ r.path \in DOMAIN path2inum
    /\ path2inum[r.path] \in DOMAIN cache
    /\ r.name \in DOMAIN cache[path2inum[r.path]].dir

\* C30: every step of a RemoveDirEntry leaves path2inum, the keys of cache,
\* every node's attributes and path and every directory map unchanged, except
\* that the directory map of the node parent_path resolves to may lose the
\* entry child_name; when the path, the node or the name is missing cache is
\* unchanged; and the reply the task writes is the ack.
C30_RemoveOnlyDetaches ==
    [][\A c \in DOMAIN task :
        RemoveDirEntryStep(c) =>
            LET r == task[c].req IN
            /\ path2inum' = path2inum
            /\ DOMAIN cache' = DOMAIN cache
            /\ \A i \in DOMAIN cache :
                /\ cache'[i].attr = cache[i].attr
                /\ cache'[i].path = cache[i].path
                /\ \A n \in DOMAIN cache'[i].dir :
                        n \in DOMAIN cache[i].dir /\ cache'[i].dir[n] = cache[i].dir[n]
                /\ \A n \in DOMAIN cache[i].dir \ DOMAIN cache'[i].dir :
                        /\ n = r.name
                        /\ r.path \in DOMAIN path2inum
                        /\ i = path2inum[r.path]
            /\ ~Detachable(r) => cache' = cache
            /\ conns'[c].replies # conns[c].replies =>
                    conns'[c].replies = Append(conns[c].replies, Reply("update_dir", <<>>))]_vars

\* A RemoveDirEntry about to ack has detached the entry of a child that an
\* UpdateDir had created: the child's path still resolves to its node, the
\* parent's directory map no longer has the name.
C30_Witness ==
    \E c \in DOMAIN task :
        /\ Running(c, "reply", {"RemoveDirEntry"})
        /\ LET r == task[c].req
               child_path == Append(r.path, r.name) IN
            /\ r.path \in DOMAIN path2inum
            /\ child_path \in DOMAIN path2inum
            /\ path2inum[child_path] \in DOMAIN cache
            /\ path2inum[child_path] # path2inum[r.path]
            /\ path2inum[r.path] \in DOMAIN cache
            /\ r.name \notin DOMAIN cache[path2inum[r.path]].dir

\* The requests that only ask.
QueryOps ==
    {"TurnOff", "Invalidate", "CheckAvailable", "Read", "LoadDir", "GetFileAttr",
     "GetInodeNum"}

\* Task c takes this step, reading or serving a query request.
QueryStep(c) ==
    /\ c \in DOMAIN task
    /\ task'[c] # task[c]
    /\ task[c].req.op \in QueryOps \/ task'[c].req.op \in QueryOps

\* C31: every step of a dispatch task that reads or serves TurnOff,
\* Invalidate, CheckAvailable, Read, LoadDir, GetFileAttr or GetInodeNum
\* leaves path2inum, cache (so every directory map) and the inode counter
\* unchanged, and the one reply a GetInodeNum task writes is the counter as a
\* bare 32-bit value.
C31_QueriesReadOnly ==
    [][\A c \in DOMAIN task :
        QueryStep(c) =>
            /\ UNCHANGED <<path2inum, cache, cur_inum>>
            /\ (task[c].req.op = "GetInodeNum" /\ conns'[c].replies # conns[c].replies) =>
                    conns'[c].replies = <<Reply("u32", <<cur_inum>>)>>]_vars

\* A GetInodeNum about to reply the counter, after an UpdateDir of another
\* connection has added a node.
C31_Witness ==
    \E c \in DOMAIN task :
        /\ Running(c, "reply", {"GetInodeNum"})
        /\ task[c].reply = Reply("u32", <<cur_inum>>)
        /\ <<c, "meta.cur_inum">> \in calls
        /\ \E i \in DOMAIN cache : cache[i].path # Root

\* The acceptor has acked a TurnOff on a connection from the bind address.
TurnedOff ==
    \E c \in DOMAIN conns : IsLoopback(c) /\ conns[c].replies = <<TurnOffAck>>

\* C32: once the acceptor has acked a loopback TurnOff it takes no further
\* step, no connection leaves the accept queue and no task is spawned; and
\* neither the return of the acceptor nor any step of the drop changes any
\* task, so the tasks spawned earlier go on by themselves.
C32_NoAcceptAfterTurnOff ==
    /\ [][TurnedOff =>
            /\ acceptor.pc = "returned"
            /\ acceptor' = acceptor
            /\ Len(backlog') >= Len(backlog)
            /\ SubSeq(backlog', 1, Len(backlog)) = backlog
            /\ DOMAIN task' = DOMAIN task]_vars
    /\ [][(acceptor'.pc # acceptor.pc /\ acceptor'.pc = "returned") \/ drop' # drop =>
            task' = task]_vars

\* The acceptor has returned and the drop has completed while an UpdateDir
\* spawned earlier is between its insertions: the rest of its mutation and
\* its reply come afterwards.
C32_Witness ==
    /\ acceptor.pc = "returned"
    /\ drop = "done"
    /\ \E c \in DOMAIN task : MidUpdate(c)

\* The byte range f = [lo, hi) of buffer b is the run from offset from up to
\* the next NUL, which it leaves out.
IsName(b, f, from) ==
    /\ f[1] = from
    /\ f[2] \in from .. Len(b) - 1
    /\ b[f[2] + 1] = 0
    /\ \A j \in from .. f[2] - 1 : b[j + 1] # 0

\* Where the k-th fetch of a decoded request starts: after the header, after
\* the struct before it, or one past the NUL of the name before it.
FetchStart(k) ==
    IF k = 1 THEN HeaderSize
    ELSE IF Fetches(kres.b)[k - 1] = "fetch_str" THEN kres.fields[k - 1][2] + 1
    ELSE kres.fields[k - 1][2]

\* C33: in a decoded request every name is the run of bytes from the cursor
\* up to, and without, the next NUL, and the fetch after a name starts right
\* after that NUL: the name of MKNOD follows its struct, and the two names of
\* SYMLINK and of RENAME are the first and the second run, in buffer order.
C33_NamesAreNulRuns ==
    kres.tag = "Ok" =>
        /\ Len(kres.fields) = Len(Fetches(kres.b))
        /\ \A k \in 1 .. Len(kres.fields) :
            /\ kres.fields[k][1] = FetchStart(k)
            /\ Fetches(kres.b)[k] = "fetch_str" => IsName(kbuf, kres.fields[k], FetchStart(k))

\* A RENAME whose struct is followed by an empty name and the newname "a".
C33_Witness ==
    /\ kres.tag = "Ok"
    /\ kres.b = FUSE_RENAME
    /\ kres.fields = << <<40, 48>>, <<48, 48>>, <<49, 50>> >>
    /\ Len(kbuf) = 51

====
